---- MODULE Spec2Model ----
(***************************************************************************)
(* Model of dags/covid_data_pipeline.py: the Airflow DAG                   *)
(* "public_health_data_pipeline" (six tasks), the pandas transform and the *)
(* TRUNCATE + COPY load of the table covid_state_metrics.                  *)
(* The task states are those of one DAG run; the other DAG runs of the DAG, *)
(* which nothing keeps from being active at the same time, appear by what  *)
(* their tasks do to the two keys and the table.                           *)
(*                                                                         *)
(* A CSV text is a sequence of rows; a row is a record of cells; a cell is *)
(* the text of one field:                                                  *)
(*   [k |-> "int",   v |-> n]   the text of the integer n                  *)
(*   [k |-> "float", v |-> h]   a decimal text, value h/2 ("1.5" is h = 3) *)
(*   [k |-> "str",   v |-> 0]   a text that is not a number (or not a date)*)
(*   [k |-> "nan",   v |-> 0]   the empty field                            *)
(*   [k |-> "date",  v |-> d]   an ISO date, d its days since 1970-01-01   *)
(*   [k |-> "timestamp", v |-> n]  the time n nanoseconds after the start  *)
(*                              of 1970-01-01, written with its time of day*)
(***************************************************************************)
EXTENDS Integers, Sequences, FiniteSets, TLC

\* ---------------------------------------------------------------- bounds
MaxRows == 3
MaxDate == 3
MaxCount == 1
MaxSrcRows == 1
MaxRuns == 2

\* ------------------------------------------------------------- constants
S3_KEY_RAW == "raw/covid_us_states_raw.csv"
S3_KEY_PROCESSED == "processed/covid_us_states_processed.csv"

\* ----------------------------------------------------------------- cells
IntCell(n) == [k |-> "int", v |-> n]
FloatCell(h) == [k |-> "float", v |-> h]
StrCell == [k |-> "str", v |-> 0]
NanCell == [k |-> "nan", v |-> 0]
DateCell(d) == [k |-> "date", v |-> d]
TimestampCell(n) == [k |-> "timestamp", v |-> n]

\* state names of the model, in the lexicographic order sort_values uses
StateNames == <<"AL", "NY">>
States == {StateNames[i] : i \in 1..Len(StateNames)}
StateRank(s) == CHOOSE i \in 1..Len(StateNames) : StateNames[i] = s

NumCols == {"fips", "cases", "deaths"}

\* ------------------------------------------------ pandas: read_csv/to_csv
\* dtype read_csv infers for a column of the text: object as soon as one
\* field is a text that is not a number (a date is such a text)
ColDtype(csv, col) ==
    IF \E i \in 1..Len(csv) : csv[i][col].k \in {"str", "date"} THEN "object"
    ELSE IF \E i \in 1..Len(csv) : csv[i][col].k \in {"float", "nan"} THEN "float64"
    ELSE "int64"

\* the text to_csv writes for a cell that read_csv put in a column of dtype dt:
\* an integer of a float64 column is written with a decimal point
RewriteCell(c, dt) ==
    IF dt = "float64" /\ c.k = "int" THEN FloatCell(2 * c.v) ELSE c

\* pd.read_csv(DATA_URL) followed by df.to_csv(index=False)
ExtractCsv(src) ==
    [i \in 1..Len(src) |->
        [date |-> RewriteCell(src[i].date, ColDtype(src, "date")),
         state |-> src[i].state,
         fips |-> RewriteCell(src[i].fips, ColDtype(src, "fips")),
         cases |-> RewriteCell(src[i].cases, ColDtype(src, "cases")),
         deaths |-> RewriteCell(src[i].deaths, ColDtype(src, "deaths"))]]

\* ------------------------------------------------ pandas: transform_data
\* value of a numeric cell in halves (float64 holds h/2)
Halves(c) == IF c.k = "int" THEN 2 * c.v ELSE c.v

\* astype(int) of a float: truncation towards zero
TruncInt(h) == IF h >= 0 THEN h \div 2 ELSE -((-h) \div 2)

\* pd.to_datetime accepts the date column: a column read as numbers is
\* converted without a check, a column read as text must hold dates and empty
\* fields only (a text that is not a date raises, and so does a number among
\* dates, which does not match the format of the dates)
DatesOK(csv) ==
    ColDtype(csv, "date") = "object" =>
        \A i \in 1..Len(csv) : csv[i].date.k \in {"date", "nan"}

\* pd.to_datetime of one field: an empty field is NaT, a date is the midnight
\* of its day, a number is the time that many nanoseconds after the midnight
\* of 1970-01-01, which is that midnight itself, the day 0, for no nanosecond
\* (the numbers of the model are far below the nanoseconds of a day)
ToDatetime(c) ==
    IF c.k = "nan" THEN NanCell
    ELSE IF c.k = "date" THEN c
    ELSE IF TruncInt(Halves(c)) = 0 THEN DateCell(0)
    ELSE TimestampCell(TruncInt(Halves(c)))

\* the text to_csv writes for a value of the converted date column df: NaT is
\* the empty field; a column of midnights is written as dates; as soon as one
\* value has a time of day, every value is written with its time of day (the
\* midnight met in such a column is that of the day 0)
DateText(df, c) ==
    IF c.k = "date" /\ \E i \in 1..Len(df) : df[i].date.k = "timestamp"
    THEN TimestampCell(0)
    ELSE c

\* a transform that lets a non-numeric cases value through
TransformOKLax(csv) ==
    /\ DatesOK(csv)
    /\ \A i \in 1..Len(csv) :
          \A col \in {"fips", "deaths"} : csv[i][col].k \in {"int", "float"}

\* transform_data returns: pd.to_datetime accepts the date column, and no
\* count is empty or a text that is not a number (the diff of an object column
\* and astype(int) of a NaN raise)
TransformOK(csv) ==
    /\ DatesOK(csv)
    /\ \A i \in 1..Len(csv) :
          \A col \in NumCols : csv[i][col].k \in {"int", "float"}

\* order of two converted dates in sort_values: NaT is placed last
DateLeq(a, b) == b.k = "nan" \/ (a.k # "nan" /\ a.v <= b.v)

\* a sort that is not stable: a row is placed before the rows of equal key
KeyLeqStrict(r, q) ==
    \/ StateRank(r.state) < StateRank(q.state)
    \/ r.state = q.state /\ DateLeq(r.date, q.date) /\ ~DateLeq(q.date, r.date)

\* key order of sort_values(by=['state', 'date'])
KeyLeq(r, q) ==
    \/ StateRank(r.state) < StateRank(q.state)
    \/ r.state = q.state /\ DateLeq(r.date, q.date)

\* stable insertion of r behind every row whose key is not greater
RECURSIVE InsertStable(_, _)
InsertStable(sorted, r) ==
    IF sorted = <<>> THEN <<r>>
    ELSE IF KeyLeq(sorted[Len(sorted)], r) THEN Append(sorted, r)
    ELSE Append(InsertStable(SubSeq(sorted, 1, Len(sorted) - 1), r), sorted[Len(sorted)])

RECURSIVE SortValues(_)
SortValues(csv) ==
    IF csv = <<>> THEN <<>>
    ELSE InsertStable(SortValues(SubSeq(csv, 1, Len(csv) - 1)), csv[Len(csv)])

\* a diff over the whole frame, without groupby('state')
GroupDiffNoGroup(df, i, col) ==
    IF i > 1 THEN Halves(df[i][col]) - Halves(df[i - 1][col]) ELSE 0

\* groupby('state')[col].diff().fillna(0) at row i of the sorted frame, in halves
GroupDiff(df, i, col) ==
    IF i > 1 /\ df[i - 1].state = df[i].state
    THEN Halves(df[i][col]) - Halves(df[i - 1][col])
    ELSE 0

\* no clip
ClipNothing(h) == h

\* clip(lower=0)
ClipLower(h) == IF h < 0 THEN 0 ELSE h

\* transform_data on a text it accepts: the clean CSV text
TransformData(csv) ==
    LET df == SortValues([i \in 1..Len(csv) |->
                             [csv[i] EXCEPT !.date = ToDatetime(csv[i].date)]]) IN
    [i \in 1..Len(df) |->
        [date |-> DateText(df, df[i].date),
         state |-> df[i].state,
         fips |-> IntCell(TruncInt(Halves(df[i].fips))),
         cases |-> IntCell(TruncInt(Halves(df[i].cases))),
         deaths |-> IntCell(TruncInt(Halves(df[i].deaths))),
         new_cases |-> IntCell(TruncInt(ClipLower(GroupDiff(df, i, "cases")))),
         new_deaths |-> IntCell(TruncInt(ClipLower(GroupDiff(df, i, "deaths"))))]]

\* ----------------------------------------------------- PostgreSQL: COPY
\* the table keeps PRIMARY KEY (date, state)
KeyOf(r) == <<r.date, r.state>>

\* the row COPY ... WITH CSV HEADER builds from one line of the clean text; the
\* DATE column keeps the day of a timestamp
CopyRow(r) ==
    [date |-> IF r.date.k # "timestamp" THEN r.date.v ELSE IF r.date.v < 0 THEN -1 ELSE 0,
     state |-> r.state, fips |-> r.fips.v, cases |-> r.cases.v,
     deaths |-> r.deaths.v, new_cases |-> r.new_cases.v, new_deaths |-> r.new_deaths.v]

CopyRows(csv) == {CopyRow(csv[i]) : i \in 1..Len(csv)}

\* a table without its primary key
CopyOKNoKey(tbl, csv) == TRUE

\* COPY is one statement: it inserts every line or, on a duplicate key or an
\* empty date (a column of the primary key is NOT NULL), none
CopyOK(tbl, csv) ==
    /\ \A i \in 1..Len(csv) : csv[i].date.k # "nan"
    /\ \A i, j \in 1..Len(csv) : KeyOf(CopyRow(csv[i])) = KeyOf(CopyRow(csv[j])) => i = j
    /\ \A i \in 1..Len(csv) : \A t \in tbl : KeyOf(t) # KeyOf(CopyRow(csv[i]))

\* ------------------------------------------------------------ the DAG
table_creation_task == "create_postgres_table_if_not_exists"
raw_data == "extract_data"
staged_raw == "stage_raw_data_to_s3"
transformed_data == "transform_data"
staged_clean == "stage_clean_data_to_s3"
loaded == "load_clean_data_to_postgres"

Tasks == {table_creation_task, raw_data, staged_raw, transformed_data, staged_clean, loaded}

\* the wiring without table_creation_task >> loaded
UpstreamNoSchema(t) ==
    IF t \in {staged_raw, transformed_data} THEN {raw_data}
    ELSE IF t \in {staged_clean, loaded} THEN {transformed_data}
    ELSE {}

\* the wiring with the Loader behind the stagers
UpstreamLoaderAfterStagers(t) ==
    IF t \in {staged_raw, transformed_data} THEN {raw_data}
    ELSE IF t = staged_clean THEN {transformed_data}
    ELSE IF t = loaded THEN {transformed_data, table_creation_task, staged_raw, staged_clean}
    ELSE {}

\* direct upstream tasks: raw_data >> [staged_raw, transformed_data],
\* transformed_data >> [staged_clean, loaded], table_creation_task >> loaded
Upstream(t) ==
    IF t \in {staged_raw, transformed_data} THEN {raw_data}
    ELSE IF t = staged_clean THEN {transformed_data}
    ELSE IF t = loaded THEN {transformed_data, table_creation_task}
    ELSE {}

\* task instance states of the scheduler
Terminal == {"success", "failed", "upstream_failed"}

\* no XCom value / no stored object
NoData == <<>>

\* ------------------------------------------------------- source data sets
SrcRow(d, s, c, x) ==
    [date |-> DateCell(d), state |-> s, fips |-> IntCell(StateRank(s)), cases |-> c, deaths |-> x]

\* a row whose date field is the text c
OddDateRow(c, s) ==
    [date |-> c, state |-> s, fips |-> IntCell(StateRank(s)), cases |-> IntCell(1),
     deaths |-> IntCell(0)]

\* what the remote endpoint may serve to a pipeline run: rows of the states in
\* any order, a state possibly repeated, a row with a non-numeric cases value,
\* or a row without a date
SrcRows == {SrcRow(1, st, IntCell(1), IntCell(0)) : st \in States}
MalformedSources ==
    {<<SrcRow(1, StateNames[1], StrCell, IntCell(0))>>, <<OddDateRow(NanCell, StateNames[1])>>}
\* the non-empty sequences over S of length up to n
SeqsUpTo(S, n) == UNION {[1..k -> S] : k \in 1..n}
Sources == SeqsUpTo(SrcRows, MaxSrcRows) \cup MalformedSources

\* the texts extract_data may return, and those transform_data may return
RawTexts == {ExtractCsv(src) : src \in Sources}
CleanTexts == {TransformData(csv) : csv \in {x \in RawTexts : TransformOK(x)}}

\* rows the Transformer may be given: dated rows of several states with
\* integer counts, rows of the first date with a fractional, non-numeric or
\* missing count, and rows whose date is missing, a number or a text that is
\* not a date
OddCountPairs ==
    {<<StrCell, IntCell(0)>>, <<NanCell, IntCell(0)>>,
     <<FloatCell(1), IntCell(0)>>, <<IntCell(0), FloatCell(1)>>}
OddRows ==
    {SrcRow(1, s, p[1], p[2]) : s \in States, p \in OddCountPairs}
        \cup {OddDateRow(c, StateNames[2]) : c \in {NanCell, IntCell(0), IntCell(1), StrCell}}
TransformRows ==
    {SrcRow(d, s, IntCell(c), IntCell(x)) : d \in 1..MaxDate, s \in States, c, x \in 0..MaxCount}
        \cup OddRows

\* dated rows with integer counts, deaths falling where cases rise
ReferenceRows ==
    {SrcRow(d, s, IntCell(c), IntCell(MaxCount - c)) :
        d \in 1..MaxDate, s \in States, c \in 0..MaxCount}

\* the texts given to the Transformer: every text of fewer than MaxRows rows,
\* and the texts of MaxRows dated rows with integer counts
TransformSources ==
    SeqsUpTo(TransformRows, MaxRows - 1) \cup [1..MaxRows -> ReferenceRows]

\* the texts on which the Transformer is executed repeatedly
RepeatSources == SeqsUpTo(ReferenceRows \cup OddRows, MaxRows - 1)

VARIABLES
    status,       \* task -> state of its task instance in the DAG run observed
    run,          \* number of the execution (of a task that is cleared and run again)
    xcom,         \* task -> value it returned (XCom), NoData if none
    s3,           \* key -> object stored in the bucket, NoData if none
    tableExists,  \* covid_state_metrics has been created
    table,        \* committed rows of covid_state_metrics
    lpc,          \* position of load_clean_data_to_postgres: "start" or "truncated"
    preS3,        \* s3 as the previous execution left it
    preTable,     \* table as the previous execution left it
    loading       \* number of other DAG runs between their TRUNCATE and their COPY

vars == <<status, run, xcom, s3, tableExists, table, lpc, preS3, preTable, loading>>

Init ==
    /\ status = [t \in Tasks |-> "none"]
    /\ run = 1
    /\ xcom = [t \in {raw_data, transformed_data} |-> NoData]
    /\ s3 = [key \in {S3_KEY_RAW, S3_KEY_PROCESSED} |-> NoData]
    /\ tableExists = FALSE
    /\ table = {}
    /\ lpc = "start"
    /\ preS3 = [key \in {S3_KEY_RAW, S3_KEY_PROCESSED} |-> NoData]
    /\ preTable = {}
    /\ loading = 0

\* trigger rule all_done: a task is run once all its upstream tasks are over
CanStartAllDone(t) ==
    status[t] = "none" /\ \A u \in Upstream(t) : status[u] \in {"success", "failed"}

\* a failed task is queued again
CanStartRetry(t) ==
    status[t] \in {"none", "failed"} /\ \A u \in Upstream(t) : status[u] = "success"

\* trigger rule all_success: a task is run once all its upstream tasks succeeded
CanStart(t) == status[t] = "none" /\ \A u \in Upstream(t) : status[u] = "success"

\* the scheduler starts a task instance
Start(t) ==
    /\ CanStart(t)
    /\ status' = [status EXCEPT ![t] = "running"]
    /\ lpc' = IF t = loaded THEN "start" ELSE lpc
    /\ UNCHANGED <<run, xcom, s3, tableExists, table, preS3, preTable, loading>>

\* the scheduler marks a task whose upstream failed; it is never run
MarkUpstreamFailed(t) ==
    /\ status[t] = "none"
    /\ \E u \in Upstream(t) : status[u] \in {"failed", "upstream_failed"}
    /\ status' = [status EXCEPT ![t] = "upstream_failed"]
    /\ UNCHANGED <<run, xcom, s3, tableExists, table, lpc, preS3, preTable, loading>>

\* a task body raises: the task instance fails and has written nothing
TaskFail(t) ==
    /\ status[t] = "running"
    /\ status' = [status EXCEPT ![t] = "failed"]
    /\ UNCHANGED <<run, xcom, s3, tableExists, table, lpc, preS3, preTable, loading>>

\* a DROP TABLE before the CREATE TABLE
CreateTableDropping ==
    /\ status[table_creation_task] = "running"
    /\ tableExists' = TRUE
    /\ table' = {}
    /\ status' = [status EXCEPT ![table_creation_task] = "success"]
    /\ UNCHANGED <<run, xcom, s3, lpc, preS3, preTable, loading>>

\* create_postgres_table_if_not_exists: CREATE TABLE IF NOT EXISTS
CreateTable ==
    /\ status[table_creation_task] = "running"
    /\ tableExists' = TRUE
    /\ status' = [status EXCEPT ![table_creation_task] = "success"]
    /\ UNCHANGED <<run, xcom, s3, table, lpc, preS3, preTable, loading>>

CreateTableFail == TaskFail(table_creation_task)

\* extract_data: read the endpoint, return the frame as CSV text
Extract ==
    /\ status[raw_data] = "running"
    /\ \E src \in Sources : xcom' = [xcom EXCEPT ![raw_data] = ExtractCsv(src)]
    /\ status' = [status EXCEPT ![raw_data] = "success"]
    /\ UNCHANGED <<run, s3, tableExists, table, lpc, preS3, preTable, loading>>

ExtractFail == TaskFail(raw_data)

\* stage_raw_data_to_s3: load_string(..., key=S3_KEY_RAW, replace=True)
StageRaw ==
    /\ status[staged_raw] = "running"
    /\ s3' = [s3 EXCEPT ![S3_KEY_RAW] = xcom[raw_data]]
    /\ status' = [status EXCEPT ![staged_raw] = "success"]
    /\ UNCHANGED <<run, xcom, tableExists, table, lpc, preS3, preTable, loading>>

\* a put that fails after it removed the stored object
StageRawFailPartial ==
    /\ status[staged_raw] = "running"
    /\ s3' = [s3 EXCEPT ![S3_KEY_RAW] = NoData]
    /\ status' = [status EXCEPT ![staged_raw] = "failed"]
    /\ UNCHANGED <<run, xcom, tableExists, table, lpc, preS3, preTable, loading>>

StageRawFail == TaskFail(staged_raw)

\* transform_data on a text pandas accepts
Transform ==
    /\ status[transformed_data] = "running"
    /\ TransformOK(xcom[raw_data])
    /\ xcom' = [xcom EXCEPT ![transformed_data] = TransformData(xcom[raw_data])]
    /\ status' = [status EXCEPT ![transformed_data] = "success"]
    /\ UNCHANGED <<run, s3, tableExists, table, lpc, preS3, preTable, loading>>

\* transform_data raises on a text pandas cannot convert
TransformFail ==
    /\ ~TransformOK(xcom[raw_data])
    /\ TaskFail(transformed_data)

\* the clean text put at the raw key
StageCleanWrongKey ==
    /\ status[staged_clean] = "running"
    /\ s3' = [s3 EXCEPT ![S3_KEY_RAW] = xcom[transformed_data]]
    /\ status' = [status EXCEPT ![staged_clean] = "success"]
    /\ UNCHANGED <<run, xcom, tableExists, table, lpc, preS3, preTable, loading>>

\* stage_clean_data_to_s3: load_string(..., key=S3_KEY_PROCESSED, replace=True)
StageClean ==
    /\ status[staged_clean] = "running"
    /\ s3' = [s3 EXCEPT ![S3_KEY_PROCESSED] = xcom[transformed_data]]
    /\ status' = [status EXCEPT ![staged_clean] = "success"]
    /\ UNCHANGED <<run, xcom, tableExists, table, lpc, preS3, preTable, loading>>

StageCleanFail == TaskFail(staged_clean)

\* a TRUNCATE that removes nothing
TruncatedNothing(tbl) == tbl

\* rows of the table after TRUNCATE TABLE
TruncatedRows(tbl) == {}

\* load_clean_data_to_postgres, first statement: TRUNCATE with autocommit=True
LoadTruncate ==
    /\ status[loaded] = "running"
    /\ lpc = "start"
    /\ table' = TruncatedRows(table)
    /\ lpc' = "truncated"
    /\ UNCHANGED <<status, run, xcom, s3, tableExists, preS3, preTable, loading>>

\* the TRUNCATE statement fails
LoadTruncateFail ==
    /\ lpc = "start"
    /\ TaskFail(loaded)

\* a Loader that copies the object stored at the processed key
LoadCopyFromStore ==
    /\ status[loaded] = "running"
    /\ lpc = "truncated"
    /\ CopyOK(table, s3[S3_KEY_PROCESSED])
    /\ table' = table \cup CopyRows(s3[S3_KEY_PROCESSED])
    /\ status' = [status EXCEPT ![loaded] = "success"]
    /\ UNCHANGED <<run, xcom, s3, tableExists, lpc, preS3, preTable, loading>>

\* load_clean_data_to_postgres, second statement: copy_expert(COPY ... FROM STDIN)
LoadCopy ==
    /\ status[loaded] = "running"
    /\ lpc = "truncated"
    /\ CopyOK(table, xcom[transformed_data])
    /\ table' = table \cup CopyRows(xcom[transformed_data])
    /\ status' = [status EXCEPT ![loaded] = "success"]
    /\ UNCHANGED <<run, xcom, s3, tableExists, lpc, preS3, preTable, loading>>

\* a COPY that fails after its first line, which stays in the table
LoadCopyFailPartial ==
    /\ lpc = "truncated"
    /\ status[loaded] = "running"
    /\ status' = [status EXCEPT ![loaded] = "failed"]
    /\ table' = table \cup {CopyRow(xcom[transformed_data][1])}
    /\ UNCHANGED <<run, xcom, s3, tableExists, lpc, preS3, preTable, loading>>

\* the COPY statement fails (duplicate key, empty date, connection lost):
\* nothing is inserted
LoadCopyFail ==
    /\ lpc = "truncated"
    /\ TaskFail(loaded)

\* ------------------------------------------------- the other DAG runs
\* The @dag call sets schedule="@daily" and neither max_active_runs nor
\* depends_on_past: the scheduler (and a manual trigger) creates a DAG run
\* whether or not an earlier one is over, so DAG runs of this DAG are active
\* before, after and at the same time as the one observed. They execute the
\* same six functions on the same two keys and the same table. status, xcom
\* and lpc are those of the DAG run observed; of the other DAG runs the model
\* keeps what they do to the store and the table, and how many of their
\* Loaders are between the TRUNCATE and the COPY (which text a Loader copies
\* shows when it copies).

\* create_postgres_table_if_not_exists of another DAG run
OtherCreateTable ==
    /\ tableExists' = TRUE
    /\ UNCHANGED <<status, run, xcom, s3, table, lpc, preS3, preTable, loading>>

\* stage_raw_data_to_s3 of another DAG run, on the text its extract_data returned
OtherStageRaw ==
    /\ \E csv \in RawTexts : s3' = [s3 EXCEPT ![S3_KEY_RAW] = csv]
    /\ UNCHANGED <<status, run, xcom, tableExists, table, lpc, preS3, preTable, loading>>

\* stage_clean_data_to_s3 of another DAG run, on the text its transform_data returned
OtherStageClean ==
    /\ \E csv \in CleanTexts : s3' = [s3 EXCEPT ![S3_KEY_PROCESSED] = csv]
    /\ UNCHANGED <<status, run, xcom, tableExists, table, lpc, preS3, preTable, loading>>

\* TRUNCATE of the Loader of another DAG run (its table_creation_task succeeded)
OtherLoadTruncate ==
    /\ tableExists
    /\ loading < MaxRuns - 1
    /\ table' = TruncatedRows(table)
    /\ loading' = loading + 1
    /\ UNCHANGED <<status, run, xcom, s3, tableExists, lpc, preS3, preTable>>

\* COPY of the Loader of another DAG run, of the text its transform_data returned
OtherLoadCopy ==
    /\ loading > 0
    /\ \E csv \in CleanTexts :
          /\ CopyOK(table, csv)
          /\ table' = table \cup CopyRows(csv)
    /\ loading' = loading - 1
    /\ UNCHANGED <<status, run, xcom, s3, tableExists, lpc, preS3, preTable>>

\* the COPY of the Loader of another DAG run fails: nothing is inserted
OtherLoadCopyFail ==
    /\ loading > 0
    /\ loading' = loading - 1
    /\ UNCHANGED <<status, run, xcom, s3, tableExists, table, lpc, preS3, preTable>>

Next ==
    \/ \E t \in Tasks : Start(t)
    \/ \E t \in Tasks : MarkUpstreamFailed(t)
    \/ CreateTable
    \/ CreateTableFail
    \/ Extract
    \/ ExtractFail
    \/ StageRaw
    \/ StageRawFail
    \/ Transform
    \/ TransformFail
    \/ StageClean
    \/ StageCleanFail
    \/ LoadTruncate
    \/ LoadTruncateFail
    \/ LoadCopy
    \/ LoadCopyFail
    \/ OtherCreateTable
    \/ OtherStageRaw
    \/ OtherStageClean
    \/ OtherLoadTruncate
    \/ OtherLoadCopy
    \/ OtherLoadCopyFail

Spec == Init /\ [][Next]_vars

\* ------------------------------------------ one DAG run, fairly scheduled
\* The other DAG runs change s3, tableExists, table and loading only. No task
\* of this run waits for them: of those variables only table is read, by the
\* COPY, and LoadCopy \/ LoadCopyFail is enabled whatever the table holds. How
\* the states of the task instances of a run evolve is therefore seen on the
\* run alone.
NextRun ==
    \/ \E t \in Tasks : Start(t)
    \/ \E t \in Tasks : MarkUpstreamFailed(t)
    \/ CreateTable
    \/ CreateTableFail
    \/ Extract
    \/ ExtractFail
    \/ StageRaw
    \/ StageRawFail
    \/ Transform
    \/ TransformFail
    \/ StageClean
    \/ StageCleanFail
    \/ LoadTruncate
    \/ LoadTruncateFail
    \/ LoadCopy
    \/ LoadCopyFail

\* the scheduler eventually handles every task whose upstream tasks are over,
\* and every task body eventually returns or raises
Fairness ==
    /\ \A t \in Tasks : WF_vars(Start(t))
    /\ \A t \in Tasks : WF_vars(MarkUpstreamFailed(t))
    /\ WF_vars(CreateTable \/ CreateTableFail)
    /\ WF_vars(Extract \/ ExtractFail)
    /\ WF_vars(StageRaw \/ StageRawFail)
    /\ WF_vars(Transform \/ TransformFail)
    /\ WF_vars(StageClean \/ StageCleanFail)
    /\ WF_vars(LoadTruncate \/ LoadTruncateFail)
    /\ WF_vars(LoadCopy \/ LoadCopyFail)

FairSpec == Init /\ [][NextRun]_vars /\ Fairness

\* ------------------------------- the Transformer on every bounded input
InitTransform ==
    /\ status = [t \in Tasks |-> IF t = raw_data THEN "success" ELSE "none"]
    /\ run = 1
    /\ \E src \in TransformSources :
          xcom = [t \in {raw_data, transformed_data} |->
                     IF t = raw_data THEN ExtractCsv(src) ELSE NoData]
    /\ s3 = [key \in {S3_KEY_RAW, S3_KEY_PROCESSED} |-> NoData]
    /\ tableExists = FALSE
    /\ table = {}
    /\ lpc = "start"
    /\ preS3 = [key \in {S3_KEY_RAW, S3_KEY_PROCESSED} |-> NoData]
    /\ preTable = {}
    /\ loading = 0

NextTransform ==
    \/ Start(transformed_data)
    \/ Transform
    \/ TransformFail

SpecTransform == InitTransform /\ [][NextTransform]_vars

\* ------------------------- the Transformer executed again on one raw text
\* the Transformer and CleanStager are cleared and run again on the same XCom
\* value of extract_data; run counts the executions, preS3 keeps the store the
\* previous execution left
ClearTransform ==
    /\ run < MaxRuns
    /\ status[transformed_data] = "success"
    /\ status[staged_clean] = "success"
    /\ run' = run + 1
    /\ status' = [status EXCEPT ![transformed_data] = "none", ![staged_clean] = "none"]
    /\ xcom' = [xcom EXCEPT ![transformed_data] = NoData]
    /\ preS3' = s3
    /\ UNCHANGED <<s3, tableExists, table, lpc, preTable, loading>>

InitRepeat ==
    /\ status = [t \in Tasks |-> IF t = raw_data THEN "success" ELSE "none"]
    /\ run = 1
    /\ \E src \in RepeatSources :
          xcom = [t \in {raw_data, transformed_data} |->
                     IF t = raw_data THEN ExtractCsv(src) ELSE NoData]
    /\ s3 = [key \in {S3_KEY_RAW, S3_KEY_PROCESSED} |-> NoData]
    /\ tableExists = FALSE
    /\ table = {}
    /\ lpc = "start"
    /\ preS3 = [key \in {S3_KEY_RAW, S3_KEY_PROCESSED} |-> NoData]
    /\ preTable = {}
    /\ loading = 0

NextRepeat ==
    \/ Start(transformed_data)
    \/ Transform
    \/ TransformFail
    \/ Start(staged_clean)
    \/ StageClean
    \/ ClearTransform

SpecRepeat == InitRepeat /\ [][NextRepeat]_vars

\* ----------------------------- the Loader invoked repeatedly on one snapshot
\* the snapshots the Loader may be given
LoadSources == SeqsUpTo(SrcRows, MaxRows)

\* contents the table may have before a load: none, or an earlier snapshot
LoadedTables ==
    {{}} \cup {CopyRows(TransformData(ExtractCsv(src))) :
                 src \in {q \in LoadSources : /\ TransformOK(ExtractCsv(q))
                                              /\ CopyOK({}, TransformData(ExtractCsv(q)))}}

InitLoad ==
    /\ status = [t \in Tasks |->
                   IF t \in {table_creation_task, raw_data, transformed_data}
                   THEN "success" ELSE "none"]
    /\ run = 1
    /\ \E src \in LoadSources :
          /\ TransformOK(ExtractCsv(src))
          /\ xcom = [t \in {raw_data, transformed_data} |->
                        IF t = raw_data THEN ExtractCsv(src)
                        ELSE TransformData(ExtractCsv(src))]
    /\ s3 = [key \in {S3_KEY_RAW, S3_KEY_PROCESSED} |-> NoData]
    /\ tableExists = TRUE
    /\ table \in LoadedTables
    /\ lpc = "start"
    /\ preS3 = s3
    /\ preTable = table
    /\ loading = 0

\* the Loader is invoked once more with the same XCom value; run counts the
\* invocations, preTable keeps the rows the previous invocation left
ClearLoad ==
    /\ run < MaxRuns
    /\ status[loaded] = "success"
    /\ run' = run + 1
    /\ status' = [status EXCEPT ![loaded] = "none"]
    /\ lpc' = "start"
    /\ preTable' = table
    /\ UNCHANGED <<xcom, s3, tableExists, table, preS3, loading>>

NextLoad ==
    \/ Start(loaded)
    \/ LoadTruncate
    \/ LoadTruncateFail
    \/ LoadCopy
    \/ LoadCopyFail
    \/ ClearLoad

SpecLoad == InitLoad /\ [][NextLoad]_vars

\* ------------------- one DAG run over what earlier DAG runs have left
\* the two keys hold nothing or a text an earlier DAG run staged, the table
\* does not exist yet or holds nothing or the rows an earlier DAG run loaded;
\* preS3 and preTable keep them. The tasks of the run are scheduled in every
\* order the wiring allows, and no other DAG run is active.
InitRun ==
    /\ status = [t \in Tasks |-> "none"]
    /\ run = 1
    /\ xcom = [t \in {raw_data, transformed_data} |-> NoData]
    /\ \E raw \in RawTexts \cup {NoData} : \E clean \in CleanTexts \cup {NoData} :
          s3 = [key \in {S3_KEY_RAW, S3_KEY_PROCESSED} |->
                   IF key = S3_KEY_RAW THEN raw ELSE clean]
    /\ table \in LoadedTables
    /\ tableExists \in {b \in BOOLEAN : table # {} => b}
    /\ lpc = "start"
    /\ preS3 = s3
    /\ preTable = table
    /\ loading = 0

SpecRun == InitRun /\ [][NextRun]_vars

\* ================================================================ claims
\* a task instance that was started at some point of the DAG run
Started(t) == status[t] \in {"running", "success", "failed"}

\* a step of a task of the DAG run observed (the steps of the other DAG runs
\* leave status and lpc unchanged)
RunStep == status' # status \/ lpc' # lpc

\* C1: no node starts before all of its declared dependencies succeeded:
\* RawStager and Transformer only after Extractor, CleanStager only after
\* Transformer, Loader only after both Transformer and SchemaInitializer.
C1_DependenciesFirst ==
    /\ Started(staged_raw) => status[raw_data] = "success"
    /\ Started(transformed_data) => status[raw_data] = "success"
    /\ Started(staged_clean) => status[transformed_data] = "success"
    /\ Started(loaded) =>
          status[transformed_data] = "success" /\ status[table_creation_task] = "success"

\* the Loader is running, the other five tasks are over
C1_Witness ==
    /\ status[loaded] = "running"
    /\ \A t \in Tasks \ {loaded} : status[t] \in {"success", "failed"}

\* C2: when a node failed, no node that depends on it directly or
\* transitively is started in that run.
C2_FailureStopsDependents ==
    /\ status[raw_data] = "failed" =>
          \A t \in {staged_raw, transformed_data, staged_clean, loaded} : ~Started(t)
    /\ status[transformed_data] = "failed" =>
          \A t \in {staged_clean, loaded} : ~Started(t)
    /\ status[table_creation_task] = "failed" => ~Started(loaded)

\* SchemaInitializer failed and the Loader was skipped, while the nodes that do
\* not depend on it ran to completion
C2_Witness ==
    /\ status[table_creation_task] = "failed"
    /\ status[loaded] = "upstream_failed"
    /\ \A t \in {raw_data, staged_raw, transformed_data, staged_clean} : status[t] = "success"

\* C3 as stated: in a run in which Extractor, RawStager, CleanStager or
\* SchemaInitializer has failed, no step of the run changes the raw object, the
\* processed object or the table rows (they are left as they were).
C3_FailedRunLeavesAll ==
    [][(RunStep /\ \E t \in {raw_data, staged_raw, staged_clean, table_creation_task} :
                       status'[t] = "failed")
          => (s3' = s3 /\ table' = table)]_vars

\* C3 amended: from the step at which it fails on, a run with a failed
\* Extractor changes neither object nor the table rows, a run with a failed
\* RawStager does not change the raw object, a run with a failed CleanStager
\* does not change the processed object, and a run with a failed
\* SchemaInitializer does not change the table rows; up to that step it did not
\* either, the writer of each target being run once and behind the Extractor
\* (the Loader also behind the SchemaInitializer).
C3_FailedNodeLeavesOwnTarget ==
    /\ [][RunStep =>
            /\ status'[raw_data] = "failed" => (s3' = s3 /\ table' = table)
            /\ status'[staged_raw] = "failed" => s3'[S3_KEY_RAW] = s3[S3_KEY_RAW]
            /\ status'[staged_clean] = "failed" =>
                  s3'[S3_KEY_PROCESSED] = s3[S3_KEY_PROCESSED]
            /\ status'[table_creation_task] = "failed" => table' = table]_vars
    /\ [](/\ status[raw_data] # "success" =>
                \A t \in {staged_raw, staged_clean, loaded} : ~Started(t)
          /\ status[staged_raw] = "failed" => status[raw_data] = "success"
          /\ status[table_creation_task] # "success" => ~Started(loaded))

\* RawStager failed over a raw object another run had staged, which is still
\* stored, while CleanStager and Loader of the run wrote their targets
C3_Witness ==
    /\ status[staged_raw] = "failed"
    /\ status[staged_clean] = "success"
    /\ status[loaded] = "success"
    /\ s3[S3_KEY_RAW] # NoData
    /\ s3[S3_KEY_RAW] # xcom[raw_data]
    /\ s3[S3_KEY_PROCESSED] = xcom[transformed_data]
    /\ table # {}

\* the extracted text holds a row whose cases value is not a number
NonNumericCases(csv) == \E i \in 1..Len(csv) : csv[i].cases.k = "str"

\* C4 as stated: with a non-numeric cases value in the raw snapshot, neither
\* RawStager nor CleanStager nor Loader writes in that run: RawStager does not
\* complete its put, CleanStager and Loader are not started.
C4_NoWriteAtAll ==
    (status[raw_data] = "success" /\ NonNumericCases(xcom[raw_data])) =>
        /\ status[staged_raw] # "success"
        /\ ~Started(staged_clean)
        /\ ~Started(loaded)

\* C4 amended: with a non-numeric cases value in the raw snapshot the
\* Transformer does not succeed and returns no clean text, and neither
\* CleanStager nor Loader is started, so that the run writes neither the
\* processed key nor the table (RawStager, which depends on the Extractor only,
\* may store the raw snapshot).
C4_NoCleanWrite ==
    (status[raw_data] = "success" /\ NonNumericCases(xcom[raw_data])) =>
        /\ status[transformed_data] # "success"
        /\ xcom[transformed_data] = NoData
        /\ ~Started(staged_clean)
        /\ ~Started(loaded)

\* a run on a raw snapshot with a non-numeric cases value is over: the
\* Transformer failed, RawStager stored the snapshot
C4_Witness ==
    /\ NonNumericCases(xcom[raw_data])
    /\ status[transformed_data] = "failed"
    /\ status[staged_raw] = "success"
    /\ s3[S3_KEY_RAW] = xcom[raw_data]
    /\ status[staged_clean] = "upstream_failed"
    /\ status[loaded] = "upstream_failed"

\* the rows of the clean text, one per line
SnapshotRows(csv) ==
    {[date |-> csv[i].date.v, state |-> csv[i].state, fips |-> csv[i].fips.v,
      cases |-> csv[i].cases.v, deaths |-> csv[i].deaths.v,
      new_cases |-> csv[i].new_cases.v, new_deaths |-> csv[i].new_deaths.v] :
        i \in 1..Len(csv)}

\* C5 as stated: the Loader replaces the rows as one operation: a step of a
\* Loader that does not fail, if it changes the visible rows, leaves exactly
\* the rows of the clean snapshot, never no rows or a part of them.
C5_NeverIntermediate ==
    [][(RunStep /\ table' # table /\ status'[loaded] # "failed")
          => table' = SnapshotRows(xcom[transformed_data])]_vars

\* C5 amended: the Loader replaces the rows in two steps committed one after
\* the other: its TRUNCATE leaves the table without rows, its COPY adds every
\* row of the clean snapshot to the rows then present, or fails and adds none;
\* no step of the run makes a part of the snapshot visible, and no other step
\* of the run changes the rows.
C5_EmptyBetweenTruncateAndCopy ==
    [][RunStep =>
          /\ (lpc = "start" /\ lpc' = "truncated") => table' = {}
          /\ (status[loaded] = "running" /\ status'[loaded] = "success") =>
                /\ lpc = "truncated"
                /\ table' = table \cup SnapshotRows(xcom[transformed_data])
                /\ Cardinality(table') = Cardinality(table) + Len(xcom[transformed_data])
          /\ ( /\ ~(lpc = "start" /\ lpc' = "truncated")
               /\ ~(status[loaded] = "running" /\ status'[loaded] = "success") )
                => table' = table]_vars

\* the Loader succeeded and the table holds the rows of its snapshot, which is
\* not the text another run staged at the processed key
C5_Witness ==
    /\ status[loaded] = "success"
    /\ table # {}
    /\ table = SnapshotRows(xcom[transformed_data])
    /\ s3[S3_KEY_PROCESSED] # NoData
    /\ s3[S3_KEY_PROCESSED] # xcom[transformed_data]

\* C6: the Loader invoked twice in succession with the same clean snapshot,
\* from any table content, leaves exactly one row per (date, state), the same
\* rows as a single invocation, equal to the rows of the snapshot.
C6_LoaderIdempotent ==
    status[loaded] = "success" =>
        /\ table = SnapshotRows(xcom[transformed_data])
        /\ Cardinality(table) = Len(xcom[transformed_data])
        /\ \A r, q \in table : (r.date = q.date /\ r.state = q.state) => r = q
        /\ run > 1 => table = preTable

\* the second invocation is over, on a snapshot of two rows: the table holds
\* the two rows the first invocation left
C6_Witness ==
    /\ run = 2
    /\ status[loaded] = "success"
    /\ Len(xcom[transformed_data]) = 2
    /\ Cardinality(table) = 2
    /\ table = preTable

\* C8: a failure of RawStager or CleanStager does not block the Loader: once
\* Extractor, Transformer and SchemaInitializer succeeded the Loader is
\* eventually started, and when it succeeds it has truncated the table and
\* copied every row of the clean snapshot into it.
C8_StagerFailureDoesNotBlockLoader ==
    /\ [](( /\ status[raw_data] = "success"
            /\ status[transformed_data] = "success"
            /\ status[table_creation_task] = "success") => <>Started(loaded))
    /\ [][(status[loaded] = "running" /\ status'[loaded] = "success") =>
              /\ lpc = "truncated"
              /\ table' = table \cup SnapshotRows(xcom[transformed_data])]_vars
    /\ [](status[loaded] = "success" => lpc = "truncated")

\* both stagers failed and the Loader replaced the table
C8_Witness ==
    /\ status[staged_raw] = "failed"
    /\ status[staged_clean] = "failed"
    /\ status[loaded] = "success"
    /\ table # {}
    /\ table = SnapshotRows(xcom[transformed_data])

\* C7 (the claim; refuted by a raw snapshot with a repeated (date, state)):
\* the pair (date, state) is unique across the rows of the Transformer's output.
C7_OutputKeysUnique ==
    status[transformed_data] = "success" =>
        \A i, j \in 1..Len(xcom[transformed_data]) :
            ( /\ xcom[transformed_data][i].date = xcom[transformed_data][j].date
              /\ xcom[transformed_data][i].state = xcom[transformed_data][j].state ) => i = j

\* C9: every row of the Transformer's output has new_cases >= 0 and
\* new_deaths >= 0, also when cumulative cases or deaths decrease from one
\* date to the next within a state.
C9_IncidenceNonNegative ==
    status[transformed_data] = "success" =>
        \A i \in 1..Len(xcom[transformed_data]) :
            /\ xcom[transformed_data][i].new_cases.v >= 0
            /\ xcom[transformed_data][i].new_deaths.v >= 0

\* the output holds a row whose cases and deaths are both below those of the
\* state's previous date
C9_Witness ==
    /\ status[transformed_data] = "success"
    /\ \E i \in 2..Len(xcom[transformed_data]) :
          /\ xcom[transformed_data][i].state = xcom[transformed_data][i - 1].state
          /\ xcom[transformed_data][i].date.v > xcom[transformed_data][i - 1].date.v
          /\ xcom[transformed_data][i].cases.v < xcom[transformed_data][i - 1].cases.v
          /\ xcom[transformed_data][i].deaths.v < xcom[transformed_data][i - 1].deaths.v
          /\ xcom[transformed_data][i].new_cases.v = 0
          /\ xcom[transformed_data][i].new_deaths.v = 0

\* C10 (the claim; refuted by a raw snapshot with two rows for a state's
\* earliest date): every output row that carries its state's earliest date has
\* new_cases = 0 and new_deaths = 0.
C10_EarliestDateZero ==
    status[transformed_data] = "success" =>
        \A i \in 1..Len(xcom[transformed_data]) :
            (\A j \in 1..Len(xcom[transformed_data]) :
                xcom[transformed_data][j].state = xcom[transformed_data][i].state
                    => xcom[transformed_data][j].date.v >= xcom[transformed_data][i].date.v)
            => /\ xcom[transformed_data][i].new_cases.v = 0
               /\ xcom[transformed_data][i].new_deaths.v = 0

\* the five source fields of a row of a CSV text
SourceFields(r) == <<r.date.v, r.state, r.fips.v, r.cases.v, r.deaths.v>>

\* every count of the text is an integer
IntegerCounts(csv) ==
    \A i \in 1..Len(csv) : \A col \in NumCols : csv[i][col].k = "int"

\* index of the row of the same state immediately before row i, 0 if none
PrevOfState(out, i) ==
    IF \E j \in 1..(i - 1) : out[j].state = out[i].state
    THEN CHOOSE j \in 1..(i - 1) :
            /\ out[j].state = out[i].state
            /\ \A m \in (j + 1)..(i - 1) : out[m].state # out[i].state
    ELSE 0

\* max(0, later - earlier)
FlooredIncrease(earlier, later) == IF later - earlier > 0 THEN later - earlier ELSE 0

\* every date of the text is a calendar date
CalendarDates(csv) == \A i \in 1..Len(csv) : csv[i].date.k = "date"

\* C11: on a raw snapshot of dated rows with integer counts the Transformer's
\* output equals
\* the reference: the rows of the input with date, state, fips, cases and
\* deaths unchanged, grouped by state, by ascending date within a state, with
\* new_cases and new_deaths the floored increase over the immediately
\* preceding row of the same state and 0 on the first row of a state.
C11_MatchesReference ==
    ( /\ status[transformed_data] = "success"
      /\ CalendarDates(xcom[raw_data])
      /\ IntegerCounts(xcom[raw_data]) ) =>
        LET in == xcom[raw_data]
            out == xcom[transformed_data]
        IN  /\ Len(out) = Len(in)
            /\ \A i \in 1..Len(in) :
                  Cardinality({j \in 1..Len(in) : SourceFields(in[j]) = SourceFields(in[i])})
                      = Cardinality({j \in 1..Len(out) : SourceFields(out[j]) = SourceFields(in[i])})
            /\ \A i, j, m \in 1..Len(out) :
                  (i < j /\ j < m /\ out[i].state = out[m].state) => out[j].state = out[i].state
            /\ \A i, j \in 1..Len(out) :
                  (i < j /\ out[i].state = out[j].state) => out[i].date.v <= out[j].date.v
            /\ \A i \in 1..Len(out) :
                  /\ out[i].date.k = "date"
                  /\ \A col \in {"fips", "cases", "deaths", "new_cases", "new_deaths"} :
                        out[i][col].k = "int"
                  /\ IF PrevOfState(out, i) = 0
                     THEN out[i].new_cases.v = 0 /\ out[i].new_deaths.v = 0
                     ELSE /\ out[i].new_cases.v =
                               FlooredIncrease(out[PrevOfState(out, i)].cases.v, out[i].cases.v)
                          /\ out[i].new_deaths.v =
                               FlooredIncrease(out[PrevOfState(out, i)].deaths.v, out[i].deaths.v)

\* three rows of one state given out of date order: the output is in date
\* order; on the first row both are 0; on the second cases rose (new_cases is
\* the increase) and deaths fell (new_deaths is floored to 0); on the third
\* cases fell (floored to 0) and deaths rose (new_deaths is the increase)
C11_Witness ==
    /\ status[transformed_data] = "success"
    /\ CalendarDates(xcom[raw_data])
    /\ IntegerCounts(xcom[raw_data])
    /\ Len(xcom[raw_data]) = 3
    /\ \A i \in 1..3 : xcom[raw_data][i].state = xcom[raw_data][1].state
    /\ xcom[raw_data][1].date.v > xcom[raw_data][2].date.v
    /\ xcom[raw_data][3].date.v < xcom[raw_data][2].date.v
    /\ \A i \in 1..3 : xcom[transformed_data][i] # xcom[raw_data][i]
    /\ \A i \in 1..2 : xcom[transformed_data][i].date.v < xcom[transformed_data][i + 1].date.v
    /\ xcom[transformed_data][1].new_cases.v = 0
    /\ xcom[transformed_data][1].new_deaths.v = 0
    /\ xcom[transformed_data][2].cases.v > xcom[transformed_data][1].cases.v
    /\ xcom[transformed_data][2].new_cases.v
           = xcom[transformed_data][2].cases.v - xcom[transformed_data][1].cases.v
    /\ xcom[transformed_data][2].deaths.v < xcom[transformed_data][1].deaths.v
    /\ xcom[transformed_data][2].new_deaths.v = 0
    /\ xcom[transformed_data][3].cases.v < xcom[transformed_data][2].cases.v
    /\ xcom[transformed_data][3].new_cases.v = 0
    /\ xcom[transformed_data][3].deaths.v > xcom[transformed_data][2].deaths.v
    /\ xcom[transformed_data][3].new_deaths.v
           = xcom[transformed_data][3].deaths.v - xcom[transformed_data][2].deaths.v

\* a count of the text has a fractional part
FractionalCount(csv) ==
    \E i \in 1..Len(csv) : \E col \in NumCols :
        csv[i][col].k = "float" /\ csv[i][col].v % 2 = 1

\* C12 (the claim; refuted by a raw snapshot with a fractional count): the
\* Transformer does not succeed on a snapshot that holds a non-numeric or a
\* fractional count, so that no fractional value is truncated to an integer.
C12_FractionRejected ==
    status[transformed_data] = "success" =>
        /\ ~FractionalCount(xcom[raw_data])
        /\ \A i \in 1..Len(xcom[raw_data]) : \A col \in NumCols :
              xcom[raw_data][i][col].k \notin {"str", "nan"}

\* the instant a date field of the raw text stands for (a column holds dates
\* or numbers, never both)
InstantOf(c) == IF c.k = "date" THEN c.v ELSE TruncInt(Halves(c))

\* row j of the raw text comes out before row i: an earlier state name, within
\* a state an earlier date (a row without a date after the dated rows), and
\* among rows of one (state, date) the row given first
ComesBefore(in, j, i) ==
    \/ StateRank(in[j].state) < StateRank(in[i].state)
    \/ /\ in[j].state = in[i].state
       /\ \/ in[j].date.k # "nan" /\ in[i].date.k = "nan"
          \/ /\ in[j].date.k # "nan" /\ in[i].date.k # "nan"
             /\ InstantOf(in[j].date) < InstantOf(in[i].date)
          \/ /\ j < i
             /\ \/ in[j].date.k = "nan" /\ in[i].date.k = "nan"
                \/ /\ in[j].date.k # "nan" /\ in[i].date.k # "nan"
                   /\ InstantOf(in[j].date) = InstantOf(in[i].date)

\* the line of the output at which row i of the raw text comes out
PlaceOf(in, i) == 1 + Cardinality({j \in 1..Len(in) : ComesBefore(in, j, i)})

\* C13: the Transformer's output is determined by the raw snapshot, rows and
\* order: every row of the snapshot comes out at the line its state, its date
\* and, among several rows of one (state, date), its place in the snapshot
\* give it; so two executions on the same raw snapshot give the same output:
\* the output of a later execution is the text the earlier one staged.
C13_SameOutputAgain ==
    status[transformed_data] = "success" =>
        LET in == xcom[raw_data]
            out == xcom[transformed_data]
        IN  /\ Len(out) = Len(in)
            /\ \A i \in 1..Len(in) :
                  /\ out[PlaceOf(in, i)].state = in[i].state
                  /\ (out[PlaceOf(in, i)].date.k = "nan") = (in[i].date.k = "nan")
                  /\ out[PlaceOf(in, i)].date.k = "date" =>
                        out[PlaceOf(in, i)].date.v = InstantOf(in[i].date)
                  /\ \A col \in NumCols :
                        out[PlaceOf(in, i)][col].v = TruncInt(Halves(in[i][col]))
            /\ run > 1 => out = preS3[S3_KEY_PROCESSED]

\* the second execution is over on a snapshot with two different rows of one
\* (state, date)
C13_Witness ==
    /\ run = 2
    /\ status[transformed_data] = "success"
    /\ Len(xcom[transformed_data]) = 2
    /\ xcom[transformed_data][1].state = xcom[transformed_data][2].state
    /\ xcom[transformed_data][1].date = xcom[transformed_data][2].date
    /\ xcom[transformed_data][1].cases # xcom[transformed_data][2].cases
    /\ xcom[transformed_data] = preS3[S3_KEY_PROCESSED]

\* C14: the Loader is the only node that writes the rows of the table: every
\* step that changes them is a step of a running Loader (of the run, or of
\* another run), so the steps of the five other nodes leave them unchanged and
\* no two nodes of a run write them.
C14_OnlyLoaderWritesTable ==
    [][table' # table =>
          \/ /\ status[loaded] = "running"
             /\ status'[loaded] \in {"running", "success"}
             /\ \A t \in Tasks \ {loaded} : status'[t] = status[t]
          \/ /\ ~RunStep
             /\ loading' # loading]_vars

\* the five other nodes are over, their texts staged, and the Loader is
\* between its TRUNCATE and its COPY
C14_Witness ==
    /\ \A t \in Tasks \ {loaded} : status[t] = "success"
    /\ status[loaded] = "running"
    /\ lpc = "truncated"
    /\ loading = 0
    /\ table = {}
    /\ s3[S3_KEY_RAW] = xcom[raw_data]

\* C15: RawStager writes the raw key only and CleanStager the processed key
\* only, each replaces the object by exactly the text it was given, staging a
\* text that is already stored changes nothing, and the store holds one object
\* per key, the text staged last: only a stager's put changes the store, and
\* the put of a stager of another run replaces one object as well.
C15_StagingOverwritesOneKey ==
    /\ [](DOMAIN s3 = {S3_KEY_RAW, S3_KEY_PROCESSED})
    /\ [][/\ (status[staged_raw] = "running" /\ status'[staged_raw] = "success") =>
                /\ s3'[S3_KEY_RAW] = xcom[raw_data]
                /\ s3'[S3_KEY_PROCESSED] = s3[S3_KEY_PROCESSED]
                /\ s3[S3_KEY_RAW] = xcom[raw_data] => s3' = s3
          /\ (status[staged_clean] = "running" /\ status'[staged_clean] = "success") =>
                /\ s3'[S3_KEY_PROCESSED] = xcom[transformed_data]
                /\ s3'[S3_KEY_RAW] = s3[S3_KEY_RAW]
                /\ s3[S3_KEY_PROCESSED] = xcom[transformed_data] => s3' = s3
          /\ (RunStep /\ s3' # s3) =>
                \/ status[staged_raw] = "running" /\ status'[staged_raw] = "success"
                \/ status[staged_clean] = "running" /\ status'[staged_clean] = "success"
          /\ (~RunStep /\ s3' # s3) =>
                \E key \in {S3_KEY_RAW, S3_KEY_PROCESSED} :
                    /\ s3'[key] # NoData
                    /\ s3' = [s3 EXCEPT ![key] = s3'[key]]]_vars

\* both stagers put their texts, the Loader having failed: the store holds the
\* two texts of the run
C15_Witness ==
    /\ status[staged_raw] = "success"
    /\ status[staged_clean] = "success"
    /\ status[loaded] = "failed"
    /\ s3[S3_KEY_RAW] = xcom[raw_data]
    /\ s3[S3_KEY_PROCESSED] = xcom[transformed_data]
    /\ s3[S3_KEY_PROCESSED] # NoData

\* C16: the outcome of a run in which all six nodes succeeded does not depend
\* on the order in which its nodes were scheduled: in every such order, and
\* whatever the two keys and the table held before, the raw key holds the
\* extracted text, the processed key the Transformer's output for that text,
\* and the table exactly the rows of that output.
C16_SuccessfulRunOutcome ==
    (\A t \in Tasks : status[t] = "success") =>
        /\ s3[S3_KEY_RAW] = xcom[raw_data]
        /\ xcom[transformed_data] = TransformData(xcom[raw_data])
        /\ s3[S3_KEY_PROCESSED] = xcom[transformed_data]
        /\ table = SnapshotRows(xcom[transformed_data])
        /\ Cardinality(table) = Len(xcom[transformed_data])

\* all six nodes succeeded over two other texts staged and other rows loaded
\* before the run: the keys and the table hold what the run made
C16_Witness ==
    /\ \A t \in Tasks : status[t] = "success"
    /\ preS3[S3_KEY_RAW] \notin {NoData, xcom[raw_data]}
    /\ preS3[S3_KEY_PROCESSED] \notin {NoData, xcom[transformed_data]}
    /\ preTable # {}
    /\ preTable \cap table = {}
    /\ s3[S3_KEY_RAW] = xcom[raw_data]
    /\ s3[S3_KEY_PROCESSED] = xcom[transformed_data]
    /\ table = SnapshotRows(xcom[transformed_data])

\* C17: the TRUNCATE of the Loader leaves the table without rows, a Loader
\* that fails after it changes nothing (the earlier rows are not restored), and
\* an emptied table gets rows again only by the COPY of a Loader that succeeds,
\* of the run or of another run.
C17_FailedLoadLeavesTableEmpty ==
    /\ [][RunStep =>
            /\ (lpc = "start" /\ lpc' = "truncated") => table' = {}
            /\ (status[loaded] = "running" /\ status'[loaded] = "failed") =>
                  table' = table]_vars
    /\ [][(table = {} /\ table' # {}) =>
              \/ /\ status[loaded] = "running"
                 /\ lpc = "truncated"
                 /\ status'[loaded] = "success"
              \/ /\ ~RunStep
                 /\ loading' = loading - 1]_vars

\* the bulk insert of a clean text with an empty date was rejected after the
\* TRUNCATE: the Loader failed and the table is empty
C17_Witness ==
    /\ status[loaded] = "failed"
    /\ lpc = "truncated"
    /\ xcom[transformed_data][1].date.k = "nan"
    /\ s3[S3_KEY_PROCESSED] # NoData
    /\ loading = 0
    /\ table = {}

\* the tasks upstream of t within n steps of the wiring
RECURSIVE UpstreamWithin(_, _)
UpstreamWithin(t, n) ==
    IF n = 0 THEN {}
    ELSE Upstream(t) \cup UNION {UpstreamWithin(u, n - 1) : u \in Upstream(t)}

\* C18: every run terminates: the wiring has no cycle, under fair scheduling
\* all six nodes end up succeeded, failed or skipped for a failed dependency,
\* and no node is run a second time in the run.
C18_RunTerminates ==
    /\ [](\A t \in Tasks : t \notin UpstreamWithin(t, Cardinality(Tasks)))
    /\ <>[](\A t \in Tasks : status[t] \in Terminal)
    /\ [][\A t \in Tasks :
              /\ status[t] \in Terminal => status'[t] = status[t]
              /\ status[t] = "running" => status'[t] \in {"running", "success", "failed"}]_vars

\* a run that is over with a failed, a skipped and a succeeded node
C18_Witness ==
    /\ \A t \in Tasks : status[t] \in Terminal
    /\ status[transformed_data] = "failed"
    /\ status[loaded] = "upstream_failed"
    /\ status[staged_raw] = "success"
    /\ status[table_creation_task] = "success"

====
